---------------------------- MODULE Spec2Model ----------------------------
(***************************************************************************)
(* A model of the retrieval core of ultra-doc-intelligence:                *)
(*   app/core/chunker.py       chunk_text                                  *)
(*   app/core/retriever.py      simple_embed, build_vector_store, retrieve  *)
(*   app/core/vector_store.py   VectorStore (add, search, save, load)       *)
(*   app/core/confidence.py     calculate_confidence                        *)
(*   app/core/guardrails.py     the guardrail chain                         *)
(*   app/core/parser.py         parse_documents over .txt files             *)
(*   app/core/structured_extractor.py  extract_structured_fields            *)
(*   app/main.py                upload_file, ask_question, extract_data     *)
(*                                                                         *)
(* Texts are TLA+ strings; a character is a string of length one.          *)
(* Distances are Python floats in the code; the model carries them as      *)
(* integers in thousandths (1.5 is 1500).                                  *)
(*                                                                         *)
(* Four specifications share the variables:                                *)
(*   SpecChunk  one call of chunk_text, one step per loop iteration        *)
(*   SpecStore  one VectorStore object and its location on disk            *)
(*   SpecGuard  one call of final_guardrail, one step per check, and one   *)
(*              call of calculate_confidence                               *)
(*   Spec       the FastAPI application: requests on one asyncio loop      *)
(***************************************************************************)
EXTENDS Integers, Sequences, FiniteSets, TLC

(***************************************************************************)
(* Python strings                                                          *)
(***************************************************************************)

\* s[i] for a 1-based position i of s
Char(s, i) == SubSeq(s, i, i)

Min(a, b) == IF a < b THEN a ELSE b
Max(a, b) == IF a > b THEN a ELSE b

\* PySlice taking one character too many
PySliceInclusive(s, start, end) == SubSeq(s, start + 1, Min(end + 1, Len(s)))

\* s[start:end] for 0-based start >= 0 and any end: Python clamps end to len(s)
\* and yields "" when start >= end
PySlice(s, start, end) == SubSeq(s, start + 1, Min(end, Len(s)))

\* str.isspace() of one character, for the characters of the model's texts
IsSpace(c) == c = " " \/ c = "\n"

\* bool(s.strip()): some character of s is not whitespace
StripNonEmpty(s) == \E i \in 1..Len(s) : ~IsSpace(Char(s, i))


(***************************************************************************)
(* Bounds of the inputs                                                    *)
(***************************************************************************)

\* chunk sizes 1..MaxSize and overlaps 0..MaxSize+1 besides the defaults
MaxSize == 3
\* cap on the iterations of the while loop for one page (the loop is endless
\* when overlap >= chunk_size)
MaxIter == 6
\* pages per call of chunk_text
MaxPages == 2

(***************************************************************************)
(* chunker.py: chunk_text(pages, chunk_size=500, overlap=100)              *)
(***************************************************************************)

DefaultChunkSize == 500
DefaultOverlap == 100

VARIABLES
    c_pages,     \* the argument pages: a sequence of [text, page]
    c_size,      \* the argument chunk_size
    c_overlap,   \* the argument overlap
    c_pc,        \* "idle" | "for" | "while" | "done"
    c_idx,       \* position in pages of the page of the for loop (0: none yet)
    c_start,     \* start
    c_len,       \* text_length
    c_chunks,    \* chunks
    c_iter,      \* iterations of the while loop done for the current page
    c_from       \* per emitted chunk, the page position and window start it came from

chunkVars == <<c_pages, c_size, c_overlap, c_pc, c_idx, c_start, c_len,
               c_chunks, c_iter, c_from>>

RECURSIVE Rep(_, _)
\* c * n
Rep(c, n) ==
    IF n = 0 THEN ""
    ELSE LET half == Rep(c, n \div 2)
         IN  half \o half \o (IF n % 2 = 1 THEN c ELSE "")

\* page texts of the small configurations
SmallTexts == {"", " ", "  ", "a", "ab c", " a ", "abcde"}
\* page texts around the default chunk size
LongTexts == {Rep("a", DefaultChunkSize - DefaultOverlap),
              Rep("a", DefaultChunkSize),
              Rep("a", DefaultChunkSize - 1) \o " ",
              Rep("a", DefaultChunkSize + 1)}

\* sequences of at most MaxPages pages with increasing page numbers (the parser
\* numbers pages from 1 and skips pages without text)
PagesOver(texts) ==
    {<<>>}
    \cup {<<[text |-> t, page |-> n]>> : t \in texts, n \in 1..2}
    \cup (IF MaxPages >= 2
          THEN {<<[text |-> t1, page |-> 1], [text |-> t2, page |-> n]>> :
                    t1 \in texts, t2 \in texts, n \in 2..MaxPages + 1}
          ELSE {})

SmallConfigs == (1..MaxSize) \X (0..MaxSize + 1)

InitChunk ==
    /\ \/ /\ c_size = DefaultChunkSize /\ c_overlap = DefaultOverlap
          /\ c_pages \in PagesOver({"", "ab c"})
                         \cup {<<[text |-> t, page |-> 1]>> : t \in LongTexts}
       \/ /\ \E cfg \in SmallConfigs : c_size = cfg[1] /\ c_overlap = cfg[2]
          /\ c_pages \in PagesOver(SmallTexts)
    /\ c_pc = "for"
    /\ c_idx = 0
    /\ c_start = 0
    /\ c_len = 0
    /\ c_chunks = <<>>
    /\ c_iter = 0
    /\ c_from = <<>>

\* the other specifications leave the chunker idle
IdleChunk ==
    /\ c_pages = <<>> /\ c_size = DefaultChunkSize /\ c_overlap = DefaultOverlap
    /\ c_pc = "idle" /\ c_idx = 0 /\ c_start = 0 /\ c_len = 0
    /\ c_chunks = <<>> /\ c_iter = 0 /\ c_from = <<>>

\* NextStart with the overlap forgotten
NextStartNoOverlap(end, overlap) == end

\* lines 21-23: start = end - overlap; if start < 0: start = 0
NextStart(end, overlap) == IF end - overlap < 0 THEN 0 ELSE end - overlap

\* lines 4-9: the for loop takes the next page
ForNext ==
    /\ c_pc = "for"
    /\ c_idx < Len(c_pages)
    /\ c_idx' = c_idx + 1
    /\ c_start' = 0
    /\ c_len' = Len(c_pages[c_idx + 1].text)
    /\ c_iter' = 0
    /\ c_pc' = "while"
    /\ UNCHANGED <<c_pages, c_size, c_overlap, c_chunks, c_from>>

\* lines 11-23: one iteration of the while loop
WhileBody ==
    /\ c_pc = "while"
    /\ c_start < c_len
    /\ c_iter < MaxIter
    /\ LET end == c_start + c_size
           chunk == PySlice(c_pages[c_idx].text, c_start, end)
       IN  /\ IF StripNonEmpty(chunk)
              THEN /\ c_chunks' = Append(c_chunks,
                                    [text |-> chunk, page |-> c_pages[c_idx].page])
                   /\ c_from' = Append(c_from, [p |-> c_idx, start |-> c_start])
              ELSE UNCHANGED <<c_chunks, c_from>>
           /\ c_start' = NextStart(end, c_overlap)
    /\ c_iter' = c_iter + 1
    /\ UNCHANGED <<c_pages, c_size, c_overlap, c_pc, c_idx, c_len>>

\* line 11: the while test fails
WhileExit ==
    /\ c_pc = "while"
    /\ c_start >= c_len
    /\ c_pc' = "for"
    /\ UNCHANGED <<c_pages, c_size, c_overlap, c_idx, c_start, c_len,
                   c_chunks, c_iter, c_from>>

\* line 25: return chunks
ChunkReturn ==
    /\ c_pc = "for"
    /\ c_idx = Len(c_pages)
    /\ c_pc' = "done"
    /\ UNCHANGED <<c_pages, c_size, c_overlap, c_idx, c_start, c_len,
                   c_chunks, c_iter, c_from>>

RECURSIVE ChunkPage(_, _, _, _, _)
\* the chunks of one page from window start `start` on, for chunk_size > overlap
\* (the whole while loop of lines 11-23 at once)
ChunkPage(page, start, size, overlap, fuel) ==
    IF start >= Len(page.text) \/ fuel = 0 THEN <<>>
    ELSE LET end == start + size
             chunk == PySlice(page.text, start, end)
             rest == ChunkPage(page, NextStart(end, overlap), size, overlap, fuel - 1)
         IN  IF StripNonEmpty(chunk)
             THEN <<[text |-> chunk, page |-> page.page]>> \o rest
             ELSE rest

RECURSIVE ChunkPages(_, _, _, _)
ChunkPages(pages, i, size, overlap) ==
    IF i > Len(pages) THEN <<>>
    ELSE ChunkPage(pages[i], 0, size, overlap, Len(pages[i].text))
         \o ChunkPages(pages, i + 1, size, overlap)

\* chunk_text(pages) with the default sizes, as upload_file and ask_question call it
chunk_text(pages) == ChunkPages(pages, 1, DefaultChunkSize, DefaultOverlap)


(***************************************************************************)
(* Claims about chunk_text (checked under SpecChunk)                       *)
(***************************************************************************)

ValidConfig == c_size > c_overlap /\ c_overlap >= 0

\* C2: called with overlap >= chunk_size, chunk_text still advances the window
\* start strictly on every iteration of the loop (it rejects the call or treats
\* the overlap as zero), so the call never loops forever.
C2_StartAdvances ==
    [][(c_overlap >= c_size /\ c_pc = "while" /\ c_iter' = c_iter + 1)
         => c_start' > c_start]_chunkVars

\* C3: with chunk_size > overlap >= 0 the window start after k iterations is
\* k * (chunk_size - overlap), an iteration runs only from a start below the
\* text length, so at most ceil(len / (chunk_size - overlap)) iterations run
\* and the loop is never cut short by the model's cap.
C3_StartStrictlyIncreases ==
    (ValidConfig /\ c_pc \in {"while", "for", "done"} /\ c_idx > 0) =>
        /\ c_start = c_iter * (c_size - c_overlap)
        /\ c_iter >= 1 => (c_iter - 1) * (c_size - c_overlap) < c_len
        /\ c_iter * (c_size - c_overlap) < c_len + (c_size - c_overlap)
        /\ (c_pc = "while" /\ c_start < c_len) => c_iter < MaxIter

C3_Witness ==
    /\ ValidConfig /\ c_overlap > 0 /\ c_pc = "done"
    /\ c_iter >= 3 /\ c_start >= c_len

\* C4: a single page of exactly chunk_size non-whitespace characters, chunked
\* with the defaults (500, 100), yields exactly one chunk.
C4_ExactlyOneChunk ==
    (/\ c_pc = "done"
     /\ c_size = DefaultChunkSize /\ c_overlap = DefaultOverlap
     /\ Len(c_pages) = 1
     /\ Len(c_pages[1].text) = c_size
     /\ \A i \in 1..Len(c_pages[1].text) : ~IsSpace(Char(c_pages[1].text, i)))
    => Len(c_chunks) = 1

\* C5: every emitted chunk is the window text[start : start + chunk_size] of
\* one page, carries that page's number and has a non-whitespace character;
\* chunks are in page order and, within a page, in window order; a page
\* without a non-whitespace character has no chunk.
C5_ChunksAreWindows ==
    /\ Len(c_from) = Len(c_chunks)
    /\ \A i \in 1..Len(c_chunks) :
         LET pg == c_pages[c_from[i].p]
             off == c_from[i].start
             t == c_chunks[i].text
         IN  /\ c_chunks[i].page = pg.page
             /\ Len(t) = Min(c_size, Len(pg.text) - off)
             /\ \A k \in 1..Len(t) : Char(t, k) = Char(pg.text, off + k)
             /\ \E k \in 1..Len(t) : Char(t, k) # " "
             /\ \E k \in 1..Len(pg.text) : Char(pg.text, k) # " "
    /\ \A i, j \in 1..Len(c_chunks) :
         i < j => \/ c_from[i].p < c_from[j].p
                  \/ /\ c_from[i].p = c_from[j].p
                     /\ c_from[i].start <= c_from[j].start
                     /\ ValidConfig => c_from[i].start < c_from[j].start

C5_Witness ==
    /\ c_pc = "done"
    /\ Len(c_chunks) >= 3
    /\ c_from[1].p # c_from[3].p
    /\ \E i \in 1..Len(c_chunks) : Len(c_chunks[i].text) < c_size
    /\ \E i \in 1..Len(c_chunks) : Char(c_chunks[i].text, 1) = " "


(***************************************************************************)
(* retriever.py: simple_embed                                              *)
(***************************************************************************)

Lowers == "abcdefghijklmnopqrstuvwxyz"
Uppers == "ABCDEFGHIJKLMNOPQRSTUVWXYZ"
Digits == "0123456789"

\* the 1-based position of character c in s, 0 when absent
PosIn(c, s) ==
    IF \E i \in 1..Len(s) : Char(s, i) = c
    THEN CHOOSE i \in 1..Len(s) : Char(s, i) = c
    ELSE 0

\* the characters of the model's texts
Alphabet == Lowers \o Uppers \o Digits \o " $,-.:?_#/\n"
Chars == {Char(Alphabet, i) : i \in 1..Len(Alphabet)}

\* ord(c), for the characters of the model's texts
OrdOf(c) ==
    IF PosIn(c, Lowers) > 0 THEN 96 + PosIn(c, Lowers)
    ELSE IF PosIn(c, Uppers) > 0 THEN 64 + PosIn(c, Uppers)
    ELSE IF PosIn(c, Digits) > 0 THEN 47 + PosIn(c, Digits)
    ELSE CASE c = " " -> 32
           [] c = "$" -> 36
           [] c = "," -> 44
           [] c = "-" -> 45
           [] c = "." -> 46
           [] c = ":" -> 58
           [] c = "?" -> 63
           [] c = "_" -> 95
           [] c = "#" -> 35
           [] c = "/" -> 47
           [] c = "\n" -> 10

OrdTable == [c \in Chars |-> OrdOf(c)]
Ord(c) == OrdTable[c]

\* c.lower()
LowerTable ==
    [c \in Chars |-> IF PosIn(c, Uppers) > 0 THEN Char(Lowers, PosIn(c, Uppers)) ELSE c]
LowerChar(c) == LowerTable[c]

RECURSIVE LowerFrom(_, _)
LowerFrom(s, i) == IF i > Len(s) THEN "" ELSE LowerChar(Char(s, i)) \o LowerFrom(s, i + 1)

\* s.lower()
Lower(s) == LowerFrom(s, 1)

\* `sub in s`
Contains(sub, s) ==
    \E i \in 0..(Len(s) - Len(sub)) : SubSeq(s, i + 1, i + Len(sub)) = sub

RECURSIVE SumOver(_, _)
\* the sum of f[k] over k in S
SumOver(f, S) ==
    IF S = {} THEN 0
    ELSE LET k == CHOOSE x \in S : TRUE IN f[k] + SumOver(f, S \ {k})

\* simple_embed(text, dim=128), lines 5-19.  A vector is [dim, num, den2]: the
\* components num[k] / sqrt(den2) at the slots k of DOMAIN num, 0 elsewhere.
\* Line 13 counts the characters per slot ord(c) % dim; lines 15-17 divide by
\* the norm unless it is 0.
EmbedDim == 128

simple_embed_dim(text, dim) ==
    LET low == Lower(text)
        slots == {Ord(Char(low, i)) % dim : i \in 1..Len(low)}
        num == [k \in slots |->
                   Cardinality({i \in 1..Len(low) : Ord(Char(low, i)) % dim = k})]
        norm2 == SumOver([k \in slots |-> num[k] * num[k]], slots)
    IN  [dim |-> dim, num |-> num, den2 |-> IF norm2 # 0 THEN norm2 ELSE 1]

simple_embed(text) == simple_embed_dim(text, EmbedDim)

(***************************************************************************)
(* faiss.IndexFlatL2 as vector_store.py uses it                            *)
(***************************************************************************)

Dot(a, b) ==
    LET common == DOMAIN a.num \cap DOMAIN b.num
    IN  SumOver([k \in common |-> a.num[k] * b.num[k]], common)

RECURSIVE ISqrtIn(_, _, _)
\* the largest s in lo..hi with s * s <= t (lo * lo <= t)
ISqrtIn(t, lo, hi) ==
    IF lo >= hi THEN lo
    ELSE LET mid == (lo + hi + 1) \div 2
         IN  IF mid * mid <= t THEN ISqrtIn(t, mid, hi) ELSE ISqrtIn(t, lo, mid - 1)

\* floor(2000 * ab / sqrt(g)) for 0 <= ab * ab <= g, by long division in base
\* 2000 so that no intermediate value leaves 32 bits
CrossTerm(ab, g) ==
    LET n == ab * ab
        q1 == n \div g
        r1 == n % g
        q2 == (2000 * r1) \div g
        r2 == (2000 * r1) % g
        q3 == (2000 * r2) \div g
    IN  ISqrtIn(4000000 * q1 + 2000 * q2 + q3, 0, 2000)

\* the squared Euclidean distance of two vectors in thousandths, rounded up:
\* |a|^2 + |b|^2 - 2 a.b with a = num / sqrt(den2)
L2sqrOf(a, b) ==
    LET aa == SumOver([k \in DOMAIN a.num |-> a.num[k] * a.num[k]], DOMAIN a.num)
        bb == SumOver([k \in DOMAIN b.num |-> b.num[k] * b.num[k]], DOMAIN b.num)
    IN  (1000 * aa) \div a.den2 + (1000 * bb) \div b.den2
          - CrossTerm(Dot(a, b), a.den2 * b.den2)

\* the texts of the model's chunks and questions, and the distances of their
\* vectors computed once
KnownTexts == {"ab c", "rate: $25 usd", "abcdefghijklmnop", "ifsc code ab12",
               "ab", "a", "xyz", "What is the rate?", "IFSC code?", "total amount"}
KnownVectors == {simple_embed(t) : t \in KnownTexts}
KnownDistances == [p \in KnownVectors \X KnownVectors |-> L2sqrOf(p[1], p[2])]

KnownPairs == DOMAIN KnownDistances

L2sqr(a, b) ==
    IF <<a, b>> \in KnownPairs THEN KnownDistances[<<a, b>>] ELSE L2sqrOf(a, b)

\* the k nearest rows for the distances d[i] of the rows i, in ascending
\* (distance, row) order, as rows of [idx, dist] with 0-based idx; faiss pads
\* the rows it cannot fill with idx -1
NearestRows(d, k) ==
    LET n == Len(d)
        Before(i, j) == d[i] < d[j] \/ (d[i] = d[j] /\ i < j)
        rank == [i \in 1..n |-> 1 + Cardinality({j \in 1..n : Before(j, i)})]
        at == [p \in 1..n |-> CHOOSE i \in 1..n : rank[i] = p]
    IN  [p \in 1..k |-> IF p <= n THEN [idx |-> at[p] - 1, dist |-> d[at[p]]]
                        ELSE [idx |-> -1, dist |-> -1]]

\* index.search(query_vector, top_k), line 24 (the distances are bound as an
\* element of a set so that they are computed once)
IndexSearch(xb, q, k) ==
    CHOOSE rows \in {NearestRows(d, k) : d \in {[i \in 1..Len(xb) |-> L2sqr(q, xb[i])]}} :
        TRUE

(***************************************************************************)
(* vector_store.py: VectorStore                                            *)
(*                                                                         *)
(* A store is [dim, index, text_chunks]: index is the sequence of rows of  *)
(* the faiss index (index.ntotal is its length).  The location on disk is  *)
(* [index, chunks]: each file is NoFile or [data, by], `by` naming the     *)
(* save call that wrote it.                                                *)
(***************************************************************************)

\* a file that does not exist (os.path.exists is False)
NoFile == [absent |-> TRUE]
\* Python's None where a store is expected
None == [none |-> TRUE]

\* VectorStore(dim), lines 10-13
NewStore(dim) == [dim |-> dim, index |-> <<>>, text_chunks |-> <<>>]

\* add(vectors, chunks), lines 15-17.  vectors is a 2-D array [d, rows];
\* index.add raises when d differs from the index dimension, before the
\* chunks are touched.  The result is [raised, store].
add(store, vectors, chunks) ==
    IF vectors.d # store.dim
    THEN [raised |-> TRUE, store |-> store]
    ELSE [raised |-> FALSE,
          store |-> [store EXCEPT !.index = @ \o vectors.rows,
                                  !.text_chunks = @ \o chunks]]

RECURSIVE KeepValid(_, _, _)
\* lines 26-32: the rows whose idx names a chunk, in order
KeepValid(rows, chunks, p) ==
    IF p > Len(rows) THEN <<>>
    ELSE (IF 0 <= rows[p].idx /\ rows[p].idx < Len(chunks)
          THEN <<[chunk |-> chunks[rows[p].idx + 1], distance |-> rows[p].dist]>>
          ELSE <<>>)
         \o KeepValid(rows, chunks, p + 1)

\* search(query_vector, top_k=5), lines 20-33
search(store, query_vector, top_k) ==
    IF Len(store.index) = 0 THEN <<>>
    ELSE KeepValid(IndexSearch(store.index, query_vector, top_k),
                   store.text_chunks, 1)

\* json.dump(self.text_chunks, f), line 39: a list of objects, each the
\* key/value pairs of one chunk
JsonDump(chunks) ==
    [i \in 1..Len(chunks) |-> <<<<"text", chunks[i].text>>, <<"page", chunks[i].page>>>>]

JsonValue(obj, key) == obj[CHOOSE k \in 1..Len(obj) : obj[k][1] = key][2]

\* json.load(f), line 54
JsonLoad(data) ==
    [i \in 1..Len(data) |->
        [text |-> JsonValue(data[i], "text"), page |-> JsonValue(data[i], "page")]]

\* faiss.write_index(self.index, ...), line 37
WriteIndex(store) == [d |-> store.dim, ntotal |-> Len(store.index), xb |-> store.index]

\* lines 36-37: the index file
SaveIndexFile(disk, store, by) ==
    [disk EXCEPT !.index = [data |-> WriteIndex(store), by |-> by]]

\* lines 38-39: the chunks file
SaveChunksFile(disk, store, by) ==
    [disk EXCEPT !.chunks = [data |-> JsonDump(store.text_chunks), by |-> by]]

\* save(path), lines 35-39: the index file, then the chunks file.  `by` names
\* the call.
save(disk, store, by) == SaveChunksFile(SaveIndexFile(disk, store, by), store, by)

\* load that leaves text_chunks as __init__ set it
loadIndexOnly(disk) ==
    IF disk.index = NoFile \/ disk.chunks = NoFile
    THEN None
    ELSE [dim |-> disk.index.data.d,
          index |-> SubSeq(disk.index.data.xb, 1, disk.index.data.ntotal),
          text_chunks |-> <<>>]

\* load that only asks for the index file
loadIfIndex(disk) ==
    IF disk.index = NoFile
    THEN None
    ELSE [dim |-> disk.index.data.d,
          index |-> SubSeq(disk.index.data.xb, 1, disk.index.data.ntotal),
          text_chunks |-> IF disk.chunks = NoFile THEN <<>> ELSE JsonLoad(disk.chunks.data)]

\* load(path), lines 41-56: None unless both files exist
load(disk) ==
    IF disk.index = NoFile \/ disk.chunks = NoFile
    THEN None
    ELSE [dim |-> disk.index.data.d,
          index |-> SubSeq(disk.index.data.xb, 1, disk.index.data.ntotal),
          text_chunks |-> JsonLoad(disk.chunks.data)]

(***************************************************************************)
(* retriever.py: build_vector_store, retrieve                              *)
(***************************************************************************)

DefaultTopK == 5

\* build_vector_store(chunks), lines 22-32, for a non-empty list of chunks
build_vector_store(chunks) ==
    LET vectors == [d |-> EmbedDim,
                    rows |-> [i \in 1..Len(chunks) |-> simple_embed(chunks[i].text)]]
    IN  add(NewStore(vectors.d), vectors, chunks).store

\* retrieve(query, store, top_k=5), lines 35-37
retrieve(query, store) == search(store, simple_embed(query), DefaultTopK)

(***************************************************************************)
(* confidence.py: calculate_confidence.  A confidence is in hundredths.    *)
(***************************************************************************)

\* max_distance=1.5
MaxDistance == 1500

\* truncation instead of rounding
FloorDiv(n, m) == n \div m

\* round(n / m) for n >= 0, m > 0 (no tie arises: see calculate_confidence)
RoundDiv(n, m) == (2 * n + m) \div (2 * m)

\* lines 1-18.  round(1 - d / max_distance, 2) in hundredths is
\* round((max_distance - d) * 100 / max_distance); with d in thousandths and
\* max_distance 1.5 the quotient is never halfway between two hundredths.
calculate_confidence(retrieval_results) ==
    IF retrieval_results = <<>> THEN 0
    ELSE LET best_distance == retrieval_results[1].distance
         IN  IF best_distance >= MaxDistance THEN 0
             ELSE RoundDiv((MaxDistance - best_distance) * 100, MaxDistance)

(***************************************************************************)
(* guardrails.py                                                           *)
(***************************************************************************)

\* distance_threshold=1.5
DistanceThreshold == 1500

\* lines 7-10
strong_retrieval_guardrail(results) ==
    IF results = <<>> THEN FALSE
    ELSE results[1].distance <= DistanceThreshold

critical_keywords == <<"ifsc", "swift", "iban", "routing">>

\* the comparison without lower-casing either side
keyword_intent_case_sensitive(question, text) ==
    \A i \in 1..Len(critical_keywords) :
        ~(Contains(critical_keywords[i], question) /\ ~Contains(critical_keywords[i], text))

\* lines 13-23
keyword_intent_guardrail(question, text) ==
    LET q == Lower(question)
        t == Lower(text)
    IN  ~ \E i \in 1..Len(critical_keywords) :
            Contains(critical_keywords[i], q) /\ ~Contains(critical_keywords[i], t)

\* a character of \w
WordChars == {c \in Chars : PosIn(c, Lowers \o Uppers \o Digits \o "_") > 0}
IsWordChar(c) == c \in WordChars

RECURSIVE FindAllWords(_, _)
\* re.findall(r"\w+", s) from position i on: the maximal runs of word characters
FindAllWords(s, i) ==
    IF i > Len(s) THEN <<>>
    ELSE IF ~IsWordChar(Char(s, i)) THEN FindAllWords(s, i + 1)
    ELSE LET stop == IF \E j \in i..Len(s) : ~IsWordChar(Char(s, j))
                     THEN CHOOSE j \in i..Len(s) :
                            /\ ~IsWordChar(Char(s, j))
                            /\ \A m \in i..(j - 1) : IsWordChar(Char(s, m))
                     ELSE Len(s) + 1
         IN  <<SubSeq(s, i, stop - 1)>> \o FindAllWords(s, stop)

stop_words == {
    "a", "an", "the", "is", "are", "was", "were", "be", "been", "being",
    "have", "has", "had", "do", "does", "did", "will", "would", "could",
    "should", "may", "might", "shall", "can", "need", "dare", "ought",
    "and", "but", "or", "nor", "not", "so", "yet", "both", "either",
    "neither", "each", "every", "all", "any", "few", "more", "most",
    "other", "some", "such", "no", "only", "own", "same", "than", "too",
    "very", "just", "because", "as", "until", "while", "of", "at", "by",
    "for", "with", "about", "against", "between", "through", "during",
    "before", "after", "above", "below", "to", "from", "up", "down",
    "in", "out", "on", "off", "over", "under", "again", "further",
    "then", "once", "here", "there", "when", "where", "why", "how",
    "what", "which", "who", "whom", "this", "that", "these", "those",
    "i", "me", "my", "myself", "we", "our", "ours", "ourselves",
    "you", "your", "yours", "yourself", "he", "him", "his", "himself",
    "she", "her", "hers", "herself", "it", "its", "itself",
    "they", "them", "their", "theirs", "themselves", "many", "much",
    "tell", "give", "show", "find", "get", "list", "describe"}

\* min_match_ratio=0.2, in percent
MinMatchPercent == 20

\* the question's words that are no stop word, one-letter words included
QuestionWordsAnyLength(question) ==
    LET all == FindAllWords(Lower(question), 1)
    IN  SelectSeq(all, LAMBDA w : w \notin stop_words)

\* lines 47-50: the question's words that are no stop word and longer than 1
QuestionWords(question) ==
    LET all == FindAllWords(Lower(question), 1)
    IN  SelectSeq(all, LAMBDA w : w \notin stop_words /\ Len(w) > 1)

\* lines 26-57
question_coverage_guardrail(question, text) ==
    LET question_words == QuestionWords(question)
        found == FindAllWords(Lower(text), 1)
        text_words == {found[i] : i \in 1..Len(found)}
        matched == SelectSeq(question_words, LAMBDA w : w \in text_words)
    IN  IF question_words = <<>> THEN TRUE
        ELSE Len(matched) * 100 >= MinMatchPercent * Len(question_words)

DigitChars == {Char(Digits, i) : i \in 1..Len(Digits)}

\* lines 60-69
rate_guardrail(question, text) ==
    LET q == Lower(question)
        t == Lower(text)
    IN  IF Contains("rate", q) \/ Contains("charge", q) \/ Contains("amount", q)
        THEN LET has_number == \E i \in 1..Len(t) : Char(t, i) \in DigitChars
                 has_currency == \E c \in {"$", "usd", "inr", "eur", "gbp", "cad"} :
                                    Contains(c, t)
             IN  has_number /\ has_currency
        ELSE TRUE

\* lines 72-91
final_guardrail(question, results) ==
    IF ~strong_retrieval_guardrail(results) THEN FALSE
    ELSE LET top_text == results[1].chunk.text
         IN  IF ~keyword_intent_guardrail(question, top_text) THEN FALSE
             ELSE IF ~question_coverage_guardrail(question, top_text) THEN FALSE
             ELSE IF ~rate_guardrail(question, top_text) THEN FALSE
             ELSE TRUE


(***************************************************************************)
(* Python's re, as structured_extractor.py uses it                         *)
(***************************************************************************)

\* A pattern is a tree.  Match(r, s, i, ic) is the sequence of the ways r
\* matches s from position i, in the order a backtracking matcher tries
\* them; each way is [e, g]: the position after the match and the span
\* <<first, after>> of capture group 1 (<<>> when the group took no part).
\* ic is the IGNORECASE flag.
Lit(s) == [t |-> "lit", s |-> s]
OneOf(cs) == [t |-> "set", cs |-> {Char(cs, i) : i \in 1..Len(cs)}]
AnyChar == [t |-> "any"]
Eol == [t |-> "eol"]
WordBoundary == [t |-> "wb"]
Cat(items) == [t |-> "seq", items |-> items]
Alt(items) == [t |-> "alt", items |-> items]
Group(r) == [t |-> "grp", r |-> r]
Unbounded == 0 - 1
Quant(r, lo, hi, greedy) == [t |-> "rep", r |-> r, lo |-> lo, hi |-> hi, greedy |-> greedy]
Star(r) == Quant(r, 0, Unbounded, TRUE)
Plus(r) == Quant(r, 1, Unbounded, TRUE)
Opt(r) == Quant(r, 0, 1, TRUE)
LazyPlus(r) == Quant(r, 1, Unbounded, FALSE)

\* the character c matches a member of cs
InClass(c, cs, ic) ==
    IF ic THEN \E x \in cs : LowerChar(x) = LowerChar(c) ELSE c \in cs

\* position i of s holds a \w character
WordAt(s, i) == i >= 1 /\ i <= Len(s) /\ IsWordChar(Char(s, i))

RECURSIVE Match(_, _, _, _)
RECURSIVE MatchCat(_, _, _, _, _, _)
RECURSIVE MatchRest(_, _, _, _, _, _, _)
RECURSIVE MatchAlt(_, _, _, _, _)
RECURSIVE MatchQuant(_, _, _, _, _)
RECURSIVE MatchMore(_, _, _, _, _, _, _)

\* the items from the k-th on, after the ways ms[j..] of matching item k
MatchRest(ms, j, items, k, s, g, ic) ==
    IF j > Len(ms) THEN <<>>
    ELSE MatchCat(items, k + 1, s, ms[j].e, IF ms[j].g # <<>> THEN ms[j].g ELSE g, ic)
         \o MatchRest(ms, j + 1, items, k, s, g, ic)

MatchCat(items, k, s, i, g, ic) ==
    IF k > Len(items) THEN <<[e |-> i, g |-> g]>>
    ELSE MatchRest(Match(items[k], s, i, ic), 1, items, k, s, g, ic)

MatchAlt(items, k, s, i, ic) ==
    IF k > Len(items) THEN <<>>
    ELSE Match(items[k], s, i, ic) \o MatchAlt(items, k + 1, s, i, ic)

\* one more repetition after each way ms[j..] of matching the body once from
\* position i; a repetition that consumes nothing is not repeated
MatchMore(ms, j, r, n, s, i, ic) ==
    IF j > Len(ms) THEN <<>>
    ELSE (IF ms[j].e > i THEN MatchQuant(r, n + 1, s, ms[j].e, ic) ELSE <<>>)
         \o MatchMore(ms, j + 1, r, n, s, i, ic)

\* r.r repeated, n repetitions done, now at position i
MatchQuant(r, n, s, i, ic) ==
    LET stop == IF n >= r.lo THEN <<[e |-> i, g |-> <<>>]>> ELSE <<>>
        more == IF r.hi = Unbounded \/ n < r.hi
                THEN MatchMore(Match(r.r, s, i, ic), 1, r, n, s, i, ic)
                ELSE <<>>
    IN  IF r.greedy THEN more \o stop ELSE stop \o more

Match(r, s, i, ic) ==
    CASE r.t = "lit" ->
           IF i + Len(r.s) - 1 <= Len(s)
              /\ (IF ic THEN Lower(SubSeq(s, i, i + Len(r.s) - 1)) = Lower(r.s)
                        ELSE SubSeq(s, i, i + Len(r.s) - 1) = r.s)
           THEN <<[e |-> i + Len(r.s), g |-> <<>>]>> ELSE <<>>
      [] r.t = "set" ->
           IF i <= Len(s) /\ InClass(Char(s, i), r.cs, ic)
           THEN <<[e |-> i + 1, g |-> <<>>]>> ELSE <<>>
      [] r.t = "any" ->
           IF i <= Len(s) /\ Char(s, i) # "\n"
           THEN <<[e |-> i + 1, g |-> <<>>]>> ELSE <<>>
      [] r.t = "eol" ->
           IF i = Len(s) + 1 \/ (i = Len(s) /\ Char(s, i) = "\n")
           THEN <<[e |-> i, g |-> <<>>]>> ELSE <<>>
      [] r.t = "wb" ->
           IF WordAt(s, i - 1) # WordAt(s, i)
           THEN <<[e |-> i, g |-> <<>>]>> ELSE <<>>
      [] r.t = "grp" ->
           LET ms == Match(r.r, s, i, ic)
           IN  [j \in 1..Len(ms) |-> [e |-> ms[j].e, g |-> <<i, ms[j].e>>]]
      [] r.t = "seq" -> MatchCat(r.items, 1, s, i, <<>>, ic)
      [] r.t = "alt" -> MatchAlt(r.items, 1, s, i, ic)
      [] r.t = "rep" -> MatchQuant(r, 0, s, i, ic)

NoMatch == [none |-> TRUE]

RECURSIVE SearchFrom(_, _, _, _)
\* re.search(r, s): the first way of matching at the leftmost position that
\* has one
SearchFrom(r, s, i, ic) ==
    IF i > Len(s) + 1 THEN NoMatch
    ELSE IF Match(r, s, i, ic) # <<>> THEN Match(r, s, i, ic)[1]
    ELSE SearchFrom(r, s, i + 1, ic)

re_search(r, s, ic) == SearchFrom(r, s, 1, ic)

\* m.group(1)
Group1(s, m) == SubSeq(s, m.g[1], m.g[2] - 1)

RECURSIVE LStrip(_)
LStrip(s) == IF Len(s) > 0 /\ IsSpace(Char(s, 1)) THEN LStrip(SubSeq(s, 2, Len(s))) ELSE s
RECURSIVE RStrip(_)
RStrip(s) ==
    IF Len(s) > 0 /\ IsSpace(Char(s, Len(s))) THEN RStrip(SubSeq(s, 1, Len(s) - 1)) ELSE s

\* s.strip()
Strip(s) == RStrip(LStrip(s))

RECURSIVE CollapseFrom(_, _)
CollapseFrom(s, i) ==
    IF i > Len(s) THEN ""
    ELSE IF IsSpace(Char(s, i))
         THEN (IF i > 1 /\ IsSpace(Char(s, i - 1)) THEN "" ELSE " ") \o CollapseFrom(s, i + 1)
         ELSE Char(s, i) \o CollapseFrom(s, i + 1)

\* re.sub(r"\s+", " ", s), line 12
CollapseSpaces(s) == CollapseFrom(s, 1)

UpperTable ==
    [c \in Chars |-> IF PosIn(c, Lowers) > 0 THEN Char(Uppers, PosIn(c, Lowers)) ELSE c]
RECURSIVE UpperFrom(_, _)
UpperFrom(s, i) == IF i > Len(s) THEN "" ELSE UpperTable[Char(s, i)] \o UpperFrom(s, i + 1)

\* s.upper()
Upper(s) == UpperFrom(s, 1)

(***************************************************************************)
(* structured_extractor.py: extract_structured_fields                      *)
(***************************************************************************)

\* an optional string: Python's None, or a str
NoneStr == <<>>
Some(s) == <<s>>

Ws0 == Star(OneOf(" \n"))
Ws1 == Plus(OneOf(" \n"))
Sep == OneOf(":-")
Digit == OneOf(Digits)
WordChar == [t |-> "set", cs |-> WordChars]
Words(ws) == Alt([k \in 1..Len(ws) |-> Lit(ws[k])])

\* word\s*(?:kinds)\s*[:\-]?\s*([A-Z0-9\-]+), lines 24-28
IdPattern(word, kinds) ==
    Cat(<<Lit(word), Ws0, Words(kinds), Ws0, Opt(Sep), Ws0,
          Group(Plus(OneOf(Uppers \o Digits \o "-")))>>)

\* label\s*[:\-]\s*(.+?)(?:\n|$|stops), e.g. line 34
Labelled(label, stops) ==
    Cat(label \o <<Ws0, Sep, Ws0, Group(LazyPlus(AnyChar)),
                   Alt(<<Lit("\n"), Eol>> \o [k \in 1..Len(stops) |-> Lit(stops[k])])>>)

\* \d{1,2}[\/\-]\d{1,2}[\/\-]\d{2,4}(?:\s+\d{1,2}:\d{2})?, line 52
DateTime ==
    Cat(<<Quant(Digit, 1, 2, TRUE), OneOf("/-"), Quant(Digit, 1, 2, TRUE), OneOf("/-"),
          Quant(Digit, 2, 4, TRUE),
          Opt(Cat(<<Ws1, Quant(Digit, 1, 2, TRUE), Lit(":"), Quant(Digit, 2, 2, TRUE)>>))>>)

\* label\s*[:\-]\s*(date), lines 52-53, 59-60
Dated(label) == Cat(label \o <<Ws0, Sep, Ws0, Group(DateTime)>>)

\* \b(words)\b, lines 29, 66, 72, 93
WholeWord(r) == Cat(<<WordBoundary, Group(r), WordBoundary>>)

\* [\d,]+\.?\d*, lines 81, 88, 101
Number == Cat(<<Plus(OneOf(Digits \o ",")), Opt(Lit(".")), Star(Digit)>>)

\* (?:lbs?|kg|tons?), lines 101-102
Unit == Alt(<<Cat(<<Lit("lb"), Opt(Lit("s"))>>), Lit("kg"), Cat(<<Lit("ton"), Opt(Lit("s"))>>)>>)

ShipmentIdPatterns ==
    <<IdPattern("shipment", <<"id", "#", "no", "number">>),
      IdPattern("load", <<"id", "#", "no", "number">>),
      IdPattern("order", <<"id", "#", "no", "number">>),
      IdPattern("pro", <<"#", "number">>),
      IdPattern("bol", <<"#", "number">>),
      WholeWord(Cat(<<Lit("ld"), Plus(Digit)>>))>>

ShipperPatterns ==
    <<Labelled(<<Lit("shipper")>>, <<"consignee", "receiver", "deliver">>),
      Labelled(<<Lit("ship"), Ws0, Lit("from")>>, <<>>),
      Labelled(<<Lit("origin")>>, <<>>),
      Labelled(<<Lit("pickup"), Ws0, Words(<<"location", "address", "from">>)>>, <<>>)>>

ConsigneePatterns ==
    <<Labelled(<<Lit("consignee")>>, <<"shipper", "deliver">>),
      Labelled(<<Lit("receiver")>>, <<>>),
      Labelled(<<Lit("ship"), Ws0, Lit("to")>>, <<>>),
      Labelled(<<Lit("destination")>>, <<>>),
      Labelled(<<Lit("deliver"), Opt(Lit("y")), Ws0,
                 Words(<<"location", "address", "to">>)>>, <<>>)>>

PickupPatterns ==
    <<Labelled(<<Lit("pickup"), Ws0, Words(<<"date", "time", "datetime">>)>>,
               <<"delivery", "deliver">>),
      Dated(<<Lit("pick"), Ws0, Lit("up")>>),
      Dated(<<Lit("pickup")>>)>>

DeliveryPatterns ==
    <<Labelled(<<Lit("delivery"), Ws0, Words(<<"date", "time", "datetime">>)>>,
               <<"pickup", "pick">>),
      Dated(<<Lit("deliver"), Opt(Lit("y"))>>),
      Dated(<<Lit("drop"), Ws0, Lit("off")>>)>>

EquipmentPatterns ==
    <<Labelled(<<Lit("equipment"), Ws0, Opt(Lit("type"))>>, <<>>),
      WholeWord(Alt(<<Lit("flatbed"), Lit("reefer"), Cat(<<Lit("dry"), Ws0, Lit("van")>>),
                      Lit("van"), Lit("tanker"), Lit("intermodal"), Lit("container")>>))>>

ModePatterns ==
    <<Cat(<<Lit("mode"), Ws0, Sep, Ws0, Group(Plus(WordChar))>>),
      WholeWord(Words(<<"ftl", "ltl", "fcl", "lcl", "parcel", "intermodal", "drayage",
                        "truckload">>))>>

\* lines 79-81
RatePattern ==
    Cat(<<Alt(<<Cat(<<Lit("agreed"), Ws0, Lit("amount")>>),
                Cat(<<Lit("carrier"), Ws0, Lit("rate")>>),
                Cat(<<Lit("total"), Ws0, Words(<<"rate", "charge", "amount">>)>>),
                Lit("rate"), Lit("charge")>>),
          Ws0, Opt(Sep), Ws0, Opt(Lit("$")), Ws0, Group(Number)>>)

\* line 88
DollarPattern == Cat(<<Lit("$"), Ws0, Group(Number)>>)

\* line 93
CurrencyPattern == WholeWord(Words(<<"usd", "inr", "eur", "gbp", "cad">>))

WeightPatterns ==
    <<Cat(<<Lit("weight"), Ws0, Sep, Ws0, Group(Cat(<<Number, Ws0, Opt(Unit)>>))>>),
      Cat(<<Group(Number), Ws0, Unit, WordBoundary>>)>>

CarrierPatterns ==
    <<Labelled(<<Lit("carrier"), Ws0, Opt(Lit("name"))>>, <<"driver", "dispatcher", "rate">>),
      Labelled(<<Lit("trucking"), Ws0, Lit("company")>>, <<>>)>>

RECURSIVE FindFrom(_, _, _)
FindFrom(patterns, k, source) ==
    IF k > Len(patterns) THEN NoneStr
    ELSE IF re_search(patterns[k], source, TRUE) # NoMatch
         THEN Some(Strip(Group1(source, re_search(patterns[k], source, TRUE))))
         ELSE FindFrom(patterns, k + 1, source)

\* find(patterns, source), lines 15-20
find(patterns, source) == FindFrom(patterns, 1, source)

FieldNames ==
    {"shipment_id", "shipper", "consignee", "pickup_datetime", "delivery_datetime",
     "equipment_type", "mode", "rate", "currency", "weight", "carrier_name"}

\* extract_structured_fields(full_text), lines 4-123
ExtractFields(full_text) ==
    LET text == CollapseSpaces(full_text)
        lower == Lower(text)
        rate_match == re_search(RatePattern, lower, FALSE)
        dollar_match == re_search(DollarPattern, text, FALSE)
        currency_match == re_search(CurrencyPattern, lower, FALSE)
    IN  [shipment_id |-> find(ShipmentIdPatterns, text),
         shipper |-> find(ShipperPatterns, lower),
         consignee |-> find(ConsigneePatterns, lower),
         pickup_datetime |-> find(PickupPatterns, lower),
         delivery_datetime |-> find(DeliveryPatterns, lower),
         equipment_type |-> find(EquipmentPatterns, lower),
         mode |-> find(ModePatterns, lower),
         rate |-> IF rate_match # NoMatch /\ Group1(lower, rate_match) # ""
                  THEN Some(Group1(lower, rate_match))
                  ELSE IF dollar_match # NoMatch THEN Some(Group1(text, dollar_match))
                  ELSE NoneStr,
         currency |-> IF currency_match # NoMatch
                      THEN Some(Upper(Group1(lower, currency_match)))
                      ELSE IF Contains("$", text) THEN Some("USD") ELSE NoneStr,
         weight |-> find(WeightPatterns, lower),
         carrier_name |-> find(CarrierPatterns, lower)]


(***************************************************************************)
(* SpecStore: one VectorStore object, driven through its four methods      *)
(***************************************************************************)

\* rows of the index in SpecStore
MaxEntries == 3
\* calls of save in SpecStore
MaxSaves == 2

VARIABLES
    disk,        \* the directory data/vector_store: [index, chunks]
    v_store,     \* the VectorStore object
    v_out,       \* the last call: its name, arguments and result
    v_saved,     \* the call before the last one was save
    v_saves      \* calls of save so far

storeVars == <<v_store, v_out, v_saved, v_saves>>

\* chunks handed to add, and texts of queries
ChunkA1 == [text |-> "ab c", page |-> 1]
ChunkA2 == [text |-> "ab c", page |-> 2]
ChunkR == [text |-> "rate: $25 usd", page |-> 1]
PoolChunks == {ChunkA1, ChunkA2, ChunkR}
PoolQueries == {"ab", "What is the rate?"}
TopKs == {1, 2, DefaultTopK}

\* the array np.array([simple_embed(c.text, dim) ...]) of a list of chunks
VectorsOf(chunks, dim) ==
    [d |-> dim, rows |-> [i \in 1..Len(chunks) |-> simple_embed_dim(chunks[i].text, dim)]]

\* the calls of add: the vectors of one chunk with that chunk, with no chunk
\* or with two chunks, in the index dimension or in another
AddCalls ==
    UNION {{[vectors |-> VectorsOf(<<c>>, EmbedDim), chunks |-> given] :
                given \in {<<c>>, <<>>, <<c, ChunkR>>}} : c \in PoolChunks}
    \cup {[vectors |-> VectorsOf(<<ChunkA1>>, EmbedDim \div 2), chunks |-> <<ChunkA1>>],
          [vectors |-> VectorsOf(<<ChunkR, ChunkA1>>, EmbedDim), chunks |-> <<ChunkR, ChunkA1>>]}

QueryVectors == [q \in PoolQueries |-> simple_embed(q)]

\* a location as an earlier run of the program may have left it
EarlierSnapshot == save([index |-> NoFile, chunks |-> NoFile],
                        build_vector_store(<<ChunkA1>>), 0)
InitialDisks ==
    {[index |-> NoFile, chunks |-> NoFile],
     [index |-> EarlierSnapshot.index, chunks |-> NoFile],
     [index |-> NoFile, chunks |-> EarlierSnapshot.chunks],
     EarlierSnapshot}

InitStore ==
    /\ disk \in InitialDisks
    /\ v_store = NewStore(EmbedDim)
    /\ v_out = [op |-> "new"]
    /\ v_saved = FALSE
    /\ v_saves = 0

IdleStore ==
    /\ v_store = NewStore(EmbedDim)
    /\ v_out = [op |-> "idle"]
    /\ v_saved = FALSE
    /\ v_saves = 0

StoreAdd ==
    \E call \in AddCalls :
        LET r == add(v_store, call.vectors, call.chunks)
        IN  /\ Len(v_store.index) + Len(call.vectors.rows) <= MaxEntries
            /\ Len(v_store.text_chunks) + Len(call.chunks) <= MaxEntries
            /\ v_store' = r.store
            /\ v_out' = [op |-> "add", raised |-> r.raised, d |-> call.vectors.d,
                         nvectors |-> Len(call.vectors.rows),
                         nchunks |-> Len(call.chunks)]
            /\ v_saved' = FALSE
            /\ UNCHANGED <<disk, v_saves>>

StoreSearch ==
    \E q \in PoolQueries, k \in TopKs :
        /\ v_out' = [op |-> "search", query |-> q, top_k |-> k,
                     value |-> search(v_store, QueryVectors[q], k)]
        /\ v_saved' = FALSE
        /\ UNCHANGED <<disk, v_store, v_saves>>

StoreSave ==
    /\ v_saves < MaxSaves
    /\ disk' = save(disk, v_store, v_saves + 1)
    /\ v_saves' = v_saves + 1
    /\ v_out' = [op |-> "save"]
    /\ v_saved' = FALSE
    /\ UNCHANGED v_store

StoreLoad ==
    /\ v_out' = [op |-> "load", value |-> load(disk)]
    /\ v_saved' = (v_out.op = "save")
    /\ UNCHANGED <<disk, v_store, v_saves>>


(***************************************************************************)
(* Claims about VectorStore (checked under SpecStore)                      *)
(***************************************************************************)

\* C6: add fails when the number of vectors differs from the number of chunks
\* or the vectors' dimension differs from the index dimension; so the store
\* always holds as many vectors as chunks, and row i is the vector of chunk i.
C6_AddRejectsMismatch ==
    /\ (v_out.op = "add" /\ (v_out.nvectors # v_out.nchunks \/ v_out.d # v_store.dim))
         => v_out.raised
    /\ Len(v_store.index) = Len(v_store.text_chunks)
    /\ \A i \in 1..Len(v_store.index) :
         i <= Len(v_store.text_chunks)
           => v_store.index[i] = simple_embed(v_store.text_chunks[i].text)

\* C7: on an index of n rows search(query, top_k) returns min(top_k, n)
\* results; result p is the entry with exactly p - 1 entries before it in the
\* order by distance to the query, equal distances by insertion position.
C7_SearchNearest ==
    v_out.op = "search" =>
        LET n == Len(v_store.index)
            q == QueryVectors[v_out.query]
            res == v_out.value
            Closer(j, i) ==
                \/ L2sqr(q, v_store.index[j]) < L2sqr(q, v_store.index[i])
                \/ /\ L2sqr(q, v_store.index[j]) = L2sqr(q, v_store.index[i])
                   /\ j < i
        IN  /\ Len(res) = Min(v_out.top_k, n)
            /\ \A p \in 1..Len(res) :
                 \E i \in 1..n :
                    /\ i <= Len(v_store.text_chunks)
                    /\ res[p].chunk = v_store.text_chunks[i]
                    /\ res[p].distance = L2sqr(q, v_store.index[i])
                    /\ Cardinality({j \in 1..n : Closer(j, i)}) = p - 1

\* C8: load right after save returns a store with the dimension, the vectors
\* and the chunks of the saved store, in the same order, and search on it
\* returns what search on the saved store returns.
C8_SaveLoadRoundTrip ==
    (v_out.op = "load" /\ v_saved) =>
        /\ v_out.value # None
        /\ v_out.value.dim = v_store.dim
        /\ v_out.value.index = v_store.index
        /\ v_out.value.text_chunks = v_store.text_chunks
        /\ \A q \in PoolQueries, k \in TopKs :
             search(v_out.value, QueryVectors[q], k) = search(v_store, QueryVectors[q], k)

C8_Witness ==
    /\ v_out.op = "load" /\ v_saved
    /\ Len(v_store.index) >= 2
    /\ Len(v_store.text_chunks) >= 2
    /\ v_store.text_chunks[1] # v_store.text_chunks[2]
    /\ v_saves = 2


(***************************************************************************)
(* parser.py: parse_documents over a directory of .txt files               *)
(***************************************************************************)

\* s.endswith(suffix)
EndsWith(s, suffix) ==
    Len(s) >= Len(suffix) /\ SubSeq(s, Len(s) - Len(suffix) + 1, Len(s)) = suffix

\* parse_txt(file_path), lines 26-32, on the content of the file
parse_txt(content) ==
    LET text == Strip(content)
    IN  IF text # "" THEN <<[page |-> 1, text |-> text]>> ELSE <<>>

\* the orders in which os.listdir may list the files of a directory
Listings(dir) ==
    {l \in [1..Cardinality(DOMAIN dir) -> DOMAIN dir] :
        \A i, j \in DOMAIN l : i # j => l[i] # l[j]}

RECURSIVE ParseFrom(_, _, _)
ParseFrom(dir, listing, k) ==
    IF k > Len(listing) THEN <<>>
    ELSE (IF EndsWith(Lower(listing[k]), ".txt")
          THEN <<[filename |-> listing[k], pages |-> parse_txt(dir[listing[k]])]>>
          ELSE <<>>)
         \o ParseFrom(dir, listing, k + 1)

\* parse_documents(folder_path), lines 35-53: the documents in the order of
\* the listing, each with its pages
parse_documents(dir, listing) == ParseFrom(dir, listing, 1)


(***************************************************************************)
(* main.py: the handlers of the application                                *)
(***************************************************************************)

RECURSIVE PagesText(_, _)
PagesText(pages, i) ==
    IF i > Len(pages) THEN "" ELSE pages[i].text \o "\n" \o PagesText(pages, i + 1)

RECURSIVE AllText(_, _)
\* lines 54-58, 173-176: all_text
AllText(docs, k) ==
    IF k > Len(docs) THEN "" ELSE PagesText(docs[k].pages, 1) \o AllText(docs, k + 1)

RECURSIVE AllChunks(_, _)
\* lines 55-59, 128-130: all_chunks
AllChunks(docs, k) ==
    IF k > Len(docs) THEN <<>> ELSE chunk_text(docs[k].pages) \o AllChunks(docs, k + 1)

\* the result of the await of puter_extract_structured_fields inside its try:
\* a failure (an exception, or the empty dict) or a record of the 11 fields
LlmFailed == [failed |-> TRUE]

\* a merge that returns no field when the LLM failed
MergeLlmOrNothing(structured_data, llm_data) ==
    IF llm_data = LlmFailed THEN [f \in FieldNames |-> NoneStr]
    ELSE [f \in FieldNames |->
             IF llm_data[f] # NoneStr THEN llm_data[f] ELSE structured_data[f]]

\* a merge that takes every field of the LLM's record, null or not
MergeLlmOverwriting(structured_data, llm_data) ==
    IF llm_data = LlmFailed THEN structured_data ELSE llm_data

\* lines 71-74, 193-196: the values of llm_data that are not None override
MergeLlm(structured_data, llm_data) ==
    IF llm_data = LlmFailed THEN structured_data
    ELSE [f \in FieldNames |->
             IF llm_data[f] # NoneStr THEN llm_data[f] ELSE structured_data[f]]

\* lines 97-109, in the order of the dict
FIELD_KEYWORDS ==
    <<<<"shipment_id", {"shipment id", "shipment number", "load id"}>>,
      <<"shipper", {"shipper"}>>,
      <<"consignee", {"consignee", "receiver"}>>,
      <<"pickup_datetime", {"pickup date", "pickup time", "pick up"}>>,
      <<"delivery_datetime", {"delivery date", "delivery time", "deliver"}>>,
      <<"equipment_type", {"equipment type", "equipment"}>>,
      <<"mode", {"mode of transport", "shipping mode"}>>,
      <<"rate", {"carrier rate", "rate", "charge", "amount"}>>,
      <<"currency", {"currency"}>>,
      <<"weight", {"weight"}>>,
      <<"carrier_name", {"carrier name", "carrier"}>>>>

\* a cache that keeps the record it got first
CacheSetOnce(cache, structured_data) == IF cache = <<>> THEN <<structured_data>> ELSE cache

\* line 78: STRUCTURED_CACHE["data"] = structured_data
CacheSet(cache, structured_data) == <<structured_data>>

\* STRUCTURED_CACHE.get("data", {}).get(field): the cache is <<>> or <<record>>
CacheGet(cache, field) == IF cache = <<>> THEN NoneStr ELSE cache[1][field]

\* bool(value) of an optional string
Truthy(value) == value # NoneStr /\ value[1] # ""

RECURSIVE LookupFrom(_, _, _)
\* lines 111-121: the first field with a keyword in the question and a value
\* in the cache, as <<field, value>>; <<>> when the loop ends without return
LookupFrom(question_lower, cache, k) ==
    IF k > Len(FIELD_KEYWORDS) THEN <<>>
    ELSE IF (\E kw \in FIELD_KEYWORDS[k][2] : Contains(kw, question_lower))
            /\ Truthy(CacheGet(cache, FIELD_KEYWORDS[k][1]))
         THEN <<FIELD_KEYWORDS[k][1], CacheGet(cache, FIELD_KEYWORDS[k][1])[1]>>
         ELSE LookupFrom(question_lower, cache, k + 1)

DirectLookup(question, cache) == LookupFrom(Lower(question), cache, 1)

\* lines 116-120.  The key "page" holds a str here and an int in a source of
\* a chunk; the str is written under page_name.
DirectResponse(hit) ==
    [answer |-> hit[2], confidence |-> 95,
     sources |-> <<[page_name |-> "structured", text |-> "Extracted from " \o hit[1]]>>]

\* line 133
NoDocuments == [answer |-> "No documents uploaded yet.", confidence |-> 0, sources |-> <<>>]
\* line 142
NotFound == [answer |-> "Not found in document.", confidence |-> 0, sources |-> <<>>]

\* Rejected without the guardrail
RejectedWhenEmpty(safe, results) == results = <<>>

\* line 141: not safe or not results
Rejected(safe, results) == ~safe \/ results = <<>>

\* lines 162-165
SourcesOf(results) ==
    [i \in 1..Min(3, Len(results)) |->
        [page |-> results[i].chunk.page, text |-> PySlice(results[i].chunk.text, 0, 200)]]

\* lines 154-166, for the value llm_answer has after the try
AnswerResponse(results, confidence, llm_answer) ==
    [answer |-> IF Truthy(llm_answer)
                   /\ ~Contains("not found in document", Lower(llm_answer[1]))
                THEN llm_answer[1]
                ELSE PySlice(results[1].chunk.text, 0, 500),
     confidence |-> confidence,
     sources |-> SourcesOf(results)]

\* lines 178-183
empty_result == [f \in FieldNames |-> NoneStr]

\* the files clients upload, as <<filename, content>>, and the questions they ask
UploadedFiles == {<<"a.txt", "ab c">>, <<"a.txt", "">>, <<"b.txt", "rate: $25 usd">>}
Questions == {"What is the rate?", "ab", "xyz"}

\* the states of the directory data/uploads
Directories ==
    UNION {{dir \in [fs -> {u[2] : u \in UploadedFiles}] :
               \A f \in fs : <<f, dir[f]>> \in UploadedFiles} :
           fs \in SUBSET {u[1] : u \in UploadedFiles}}

\* the values of all_text over these directories, and their fields, computed once
KnownAllTexts ==
    UNION {{AllText(parse_documents(dir, listing), 1) : listing \in Listings(dir)} :
              dir \in Directories}
KnownFields == [t \in KnownAllTexts |-> ExtractFields(t)]

extract_structured_fields(full_text) ==
    IF full_text \in KnownAllTexts THEN KnownFields[full_text] ELSE ExtractFields(full_text)

(***************************************************************************)
(* SpecGuard: final_guardrail walked check by check over one question and  *)
(* one result list, then calculate_confidence on the same list              *)
(***************************************************************************)

VARIABLES
    g_question,   \* the question
    g_results,    \* the retrieval results
    g_pc,         \* the check final_guardrail is about to run
    g_evaluated,  \* the checks run so far, in order
    g_passed,     \* what each of them returned
    g_top_text,   \* top_text: <<>> until line 77 reads it
    g_out,        \* what final_guardrail returned, once g_pc is "returned"
    g_conf        \* what calculate_confidence returned, once g_pc is "scored"

guardVars == <<g_question, g_results, g_pc, g_evaluated, g_passed, g_top_text, g_out, g_conf>>

GuardQuestions ==
    {"IFSC code?", "IFSC ab", "swift iban ab", "What is the rate?", "total amount",
     "ab", "a", "xyz", "ab ab xyz", "ab cd ef gh ij", "ab cd ef gh ij kl", "ab x y z q w"}
GuardTexts == {"ab c", "rate: $25 usd", "rate 25", "IFSC Code AB12"}
\* distances in thousandths, around 0, the middle and the threshold
GuardDistances == {0, 1, 8, 750, 1492, 1493, 1499, 1500, 1501, 2000}

GuardHits ==
    {[chunk |-> [text |-> t, page |-> 1], distance |-> d] : t \in GuardTexts, d \in GuardDistances}
\* results further down a list
GuardTails ==
    {[chunk |-> [text |-> "rate: $25 usd", page |-> 2], distance |-> 2000],
     [chunk |-> [text |-> "IFSC Code AB12", page |-> 3], distance |-> 2000]}
GuardResults ==
    {<<>>} \cup {<<r>> : r \in GuardHits} \cup {<<r, t>> : r \in GuardHits, t \in GuardTails}

InitGuard ==
    /\ g_question \in GuardQuestions
    /\ g_results \in GuardResults
    /\ g_pc = "strong"
    /\ g_evaluated = <<>>
    /\ g_passed = <<>>
    /\ g_top_text = <<>>
    /\ g_out = FALSE
    /\ g_conf = 0

IdleGuard ==
    /\ g_question = ""
    /\ g_results = <<>>
    /\ g_pc = "idle"
    /\ g_evaluated = <<>>
    /\ g_passed = <<>>
    /\ g_top_text = <<>>
    /\ g_out = FALSE
    /\ g_conf = 0

\* a check that halts every time but after the rate check
HaltsExceptRate(check, passed) == ~passed /\ check # "rate"

\* lines 73, 79, 83, 87: if not check(...): return False
Halts(check, passed) == ~passed

\* the check `check` has returned `passed`: return False, or go on to `next`
\* (return True after the last check, lines 87-91)
Checked(check, passed, next) ==
    /\ g_evaluated' = Append(g_evaluated, check)
    /\ g_passed' = Append(g_passed, passed)
    /\ IF Halts(check, passed) THEN g_pc' = "returned" /\ g_out' = FALSE
       ELSE IF next = "returned" THEN g_pc' = "returned" /\ g_out' = TRUE
       ELSE g_pc' = next /\ g_out' = g_out
    /\ UNCHANGED <<g_question, g_results, g_conf>>

\* lines 73-75
GuardStrong ==
    /\ g_pc = "strong"
    /\ Checked("strong", strong_retrieval_guardrail(g_results), "keyword")
    /\ UNCHANGED g_top_text

\* lines 77-81
GuardKeyword ==
    /\ g_pc = "keyword"
    /\ g_top_text' = <<g_results[1].chunk.text>>
    /\ Checked("keyword", keyword_intent_guardrail(g_question, g_results[1].chunk.text),
               "coverage")

\* lines 83-85
GuardCoverage ==
    /\ g_pc = "coverage"
    /\ Checked("coverage", question_coverage_guardrail(g_question, g_top_text[1]), "rate")
    /\ UNCHANGED g_top_text

\* lines 87-91
GuardRate ==
    /\ g_pc = "rate"
    /\ Checked("rate", rate_guardrail(g_question, g_top_text[1]), "returned")
    /\ UNCHANGED g_top_text

\* calculate_confidence(results) on the same list
Score ==
    /\ g_pc = "returned"
    /\ g_conf' = calculate_confidence(g_results)
    /\ g_pc' = "scored"
    /\ UNCHANGED <<g_question, g_results, g_evaluated, g_passed, g_top_text, g_out>>


(***************************************************************************)
(* Claims on calculate_confidence and the guardrails (SpecGuard)           *)
(***************************************************************************)

Abs(n) == IF n < 0 THEN 0 - n ELSE n

\* a one-result list at distance d
HitAt(d) == <<[chunk |-> [text |-> "ab c", page |-> 1], distance |-> d]>>

\* C11: calculate_confidence returns a value in [0, 1] (hundredths 0..100):
\* 0 for an empty list, 0 when the best distance is >= max_distance, 1 for
\* distance 0, otherwise the hundredth nearest to 1 - d/max_distance; it never
\* grows with the best distance and depends on the first result only.
C11_ConfidenceInUnitInterval ==
    g_pc = "scored" =>
        /\ g_conf \in 0..100
        /\ g_results = <<>> => g_conf = 0
        /\ g_results # <<>> =>
              LET d == g_results[1].distance
              IN  /\ d >= MaxDistance => g_conf = 0
                  /\ d = 0 => g_conf = 100
                  /\ d < MaxDistance =>
                        2 * Abs(g_conf * MaxDistance - (MaxDistance - d) * 100) <= MaxDistance
                  /\ \A d2 \in GuardDistances \cup {d + 1} :
                        d2 >= d => calculate_confidence(HitAt(d2)) <= g_conf
                  /\ \A tail \in GuardTails :
                        calculate_confidence(<<g_results[1], tail>>) = g_conf

\* a confidence strictly between 0 and 1 was computed from a two-result list
C11_Witness ==
    /\ g_pc = "scored"
    /\ Len(g_results) = 2
    /\ g_results[1].distance = 750
    /\ g_conf = 50

\* the order of the checks in final_guardrail
CheckOrder == <<"strong", "keyword", "coverage", "rate">>

\* what the four checks return on their own for a question and a result
\* list; the three text checks are asked only of a non-empty list
Verdicts(question, results) ==
    IF results = <<>> THEN <<strong_retrieval_guardrail(results)>>
    ELSE <<strong_retrieval_guardrail(results),
           keyword_intent_guardrail(question, results[1].chunk.text),
           question_coverage_guardrail(question, results[1].chunk.text),
           rate_guardrail(question, results[1].chunk.text)>>

\* the checks up to and including the first one that fails
UpToFirstFailure(verdicts) ==
    LET failing == {i \in 1..Len(verdicts) : ~verdicts[i]}
    IN  IF failing = {} THEN verdicts
        ELSE SubSeq(verdicts, 1, CHOOSE i \in failing : \A j \in failing : i <= j)

\* C12: final_guardrail returns true exactly when all four checks pass; the
\* checks run in the order retrieval-strength, keyword-intent,
\* question-coverage, rate and stop at the first that fails; the top chunk's
\* text is not read for an empty result list; only the first result counts.
C12_ChainStopsAtFirstFailure ==
    g_pc \in {"returned", "scored"} =>
        \E verdicts \in {Verdicts(g_question, g_results)} :
            /\ g_out = (Len(verdicts) = 4 /\ \A i \in 1..4 : verdicts[i])
            /\ g_passed = UpToFirstFailure(verdicts)
            /\ g_evaluated = SubSeq(CheckOrder, 1, Len(g_passed))
            /\ g_results = <<>> => g_top_text = <<>>
            /\ g_out = final_guardrail(g_question, g_results)
            /\ g_results # <<>> => g_out = final_guardrail(g_question, <<g_results[1]>>)

\* the chain stopped at the coverage check of a two-result list whose second
\* chunk would have covered the question
C12_Witness ==
    /\ g_pc = "returned"
    /\ g_evaluated = <<"strong", "keyword", "coverage">>
    /\ ~g_out
    /\ Len(g_results) = 2
    /\ g_question = "What is the rate?"
    /\ g_results[1].chunk.text = "ab c"
    /\ g_results[2].chunk.text = "rate: $25 usd"

\* the question names a critical keyword that the text does not contain,
\* both compared case-insensitively
MissesCriticalKeyword(question, text) ==
    \E i \in 1..Len(critical_keywords) :
        /\ Contains(critical_keywords[i], Lower(question))
        /\ ~Contains(critical_keywords[i], Lower(text))

\* C13: when the question contains a critical keyword (ifsc, swift, iban,
\* routing) in any letter case and the top chunk's text does not contain it
\* case-insensitively, final_guardrail returns false, whatever the distance
\* and the other three checks.
C13_CriticalKeywordMissingRejects ==
    (/\ g_pc \in {"returned", "scored"}
     /\ g_results # <<>>
     /\ MissesCriticalKeyword(g_question, g_results[1].chunk.text)) => ~g_out

\* an upper-case IFSC question was rejected at distance 0 although the top
\* chunk covers the question and no rate is asked for
C13_Witness ==
    /\ g_pc = "returned"
    /\ g_question = "IFSC ab"
    /\ g_results # <<>>
    /\ g_results[1].chunk.text = "ab c"
    /\ g_results[1].distance = 0
    /\ question_coverage_guardrail(g_question, "ab c")
    /\ rate_guardrail(g_question, "ab c")
    /\ g_evaluated = <<"strong", "keyword">>
    /\ ~g_out

\* the positions of the question's lower-cased word tokens that are longer
\* than one character and no stop word
CountedTokens(question) ==
    LET tokens == FindAllWords(Lower(question), 1)
    IN  {i \in 1..Len(tokens) : Len(tokens[i]) > 1 /\ tokens[i] \notin stop_words}

\* those of them whose token occurs among the text's lower-cased tokens
CoveredTokens(question, text) ==
    LET tokens == FindAllWords(Lower(question), 1)
        found == FindAllWords(Lower(text), 1)
    IN  {i \in CountedTokens(question) : \E j \in 1..Len(found) : found[j] = tokens[i]}

\* C14: question_coverage_guardrail passes exactly when at least 20% of the
\* question's lower-cased word tokens of length > 1 that are no stop words,
\* counted with repetitions, occur in the top chunk's token set; a question
\* with no such token passes.
C14_CoverageRatio ==
    Len(g_passed) >= 3 =>
        \E counted \in {Cardinality(CountedTokens(g_question))},
           covered \in {Cardinality(CoveredTokens(g_question, g_top_text[1]))} :
            /\ g_passed[3] = (5 * covered >= counted)
            /\ counted = 0 => g_passed[3]

\* the coverage check passed with exactly one of five counted tokens covered
C14_Witness ==
    /\ Len(g_passed) >= 3
    /\ g_passed[3]
    /\ Cardinality(CountedTokens(g_question)) = 5
    /\ Cardinality(CoveredTokens(g_question, g_top_text[1])) = 1

\* C19: the retrieval-strength guardrail passes if and only if
\* calculate_confidence returns a value strictly greater than 0, for every
\* best distance, the threshold itself and the distances just below it
\* included.
C19_GuardrailAgreesWithConfidence ==
    g_pc = "scored" => (g_passed[1] <=> g_conf > 0)

(***************************************************************************)
(* Spec: the application serving requests on one event loop                *)
(***************************************************************************)

\* upload requests in a run
MaxUploads == 2
\* requests that have started and not returned
MaxInFlight == 2

VARIABLES
    uploads,     \* the directory data/uploads: filename -> content
    cache,       \* STRUCTURED_CACHE: <<>> or <<the record under "data">>
    reqs,        \* the requests in flight, in order of arrival, with their locals
    n_uploads,   \* upload requests so far; the n-th upload's save is save n
    step,        \* the last step of a handler: [op, q]
    resp         \* the response the last step sent, if it sent one

appVars == <<uploads, cache, reqs, n_uploads, step, resp>>

vars == <<chunkVars, storeVars, disk, appVars, guardVars>>

\* what the await of puter_extract_structured_fields leaves in llm_data
LlmRecords ==
    {LlmFailed,
     empty_result,
     [empty_result EXCEPT !["rate"] = Some("30")]}

\* what the await of puter_generate_answer leaves in llm_answer
LlmAnswers == {NoneStr, Some("25 usd"), Some("Not Found in document.")}

NoDir == [f \in {} |-> ""]
InitialUploads == {NoDir, [f \in {"a.txt"} |-> "ab c"]}

NoStep == [op |-> "none", q |-> ""]
NoResponse == [kind |-> "none"]

IdleApp ==
    /\ uploads = NoDir
    /\ cache = <<>>
    /\ reqs = <<>>
    /\ n_uploads = 0
    /\ step = NoStep
    /\ resp = NoResponse

\* the process starts: the module is imported (lines 24, 35-36) over the
\* directories an earlier run may have left
InitApp ==
    /\ uploads \in InitialUploads
    /\ disk \in InitialDisks
    /\ cache = <<>>
    /\ reqs = <<>>
    /\ n_uploads = 0
    /\ step = NoStep
    /\ resp = NoResponse

\* HoldsLoop for a save that awaits between its writes
HoldsLoopNever(pc) == FALSE

\* a handler at this position goes on without returning to the event loop:
\* there is no await between lines 46 and 70
HoldsLoop(pc) == pc \in {"save_index", "save_chunks"}

\* some handler is between two awaits
Running == \E k \in 1..Len(reqs) : HoldsLoop(reqs[k].pc)

Stepped(op, q) == step' = [op |-> op, q |-> q]

Without(s, k) == SubSeq(s, 1, k - 1) \o SubSeq(s, k + 1, Len(s))

\* upload_file, lines 46-62 (and 66-70 when there is nothing to save)
UploadStart ==
    /\ ~Running
    /\ Len(reqs) < MaxInFlight
    /\ n_uploads < MaxUploads
    /\ \E file \in UploadedFiles :
         LET dir == [g \in DOMAIN uploads \cup {file[1]} |->
                        IF g = file[1] THEN file[2] ELSE uploads[g]]
         IN  /\ uploads' = dir
             /\ \E listing \in Listings(dir) :
                  LET docs == parse_documents(dir, listing)
                      all_text == AllText(docs, 1)
                      all_chunks == AllChunks(docs, 1)
                  IN  reqs' = Append(reqs,
                          IF all_chunks # <<>>
                          THEN [kind |-> "upload", pc |-> "save_index", id |-> n_uploads + 1,
                                store |-> build_vector_store(all_chunks),
                                all_chunks |-> all_chunks,
                                all_text |-> all_text, structured_data |-> empty_result]
                          ELSE [kind |-> "upload", pc |-> "await", id |-> n_uploads + 1,
                                store |-> None, all_chunks |-> all_chunks,
                                all_text |-> all_text,
                                structured_data |-> extract_structured_fields(all_text)])
    /\ n_uploads' = n_uploads + 1
    /\ Stepped("upload_start", "")
    /\ resp' = NoResponse
    /\ UNCHANGED <<disk, cache>>

\* store.save(), lines 36-37 of vector_store.py
UploadSaveIndex ==
    \E k \in 1..Len(reqs) :
        /\ reqs[k].kind = "upload" /\ reqs[k].pc = "save_index"
        /\ disk' = SaveIndexFile(disk, reqs[k].store, reqs[k].id)
        /\ reqs' = [reqs EXCEPT ![k].pc = "save_chunks"]
        /\ Stepped("save_index", "")
        /\ resp' = NoResponse
        /\ UNCHANGED <<uploads, cache, n_uploads>>

\* store.save(), lines 38-39 of vector_store.py, then lines 66-70
UploadSaveChunks ==
    \E k \in 1..Len(reqs) :
        /\ reqs[k].kind = "upload" /\ reqs[k].pc = "save_chunks"
        /\ disk' = SaveChunksFile(disk, reqs[k].store, reqs[k].id)
        /\ reqs' = [reqs EXCEPT ![k].pc = "await",
                                ![k].store = None,
                                ![k].structured_data =
                                    extract_structured_fields(reqs[k].all_text)]
        /\ Stepped("save_chunks", "")
        /\ resp' = NoResponse
        /\ UNCHANGED <<uploads, cache, n_uploads>>

\* upload_file, lines 70-83, resumed with llm_data as the outcome of the await
UploadFinishWith(llm_data) ==
    /\ ~Running
    /\ \E k \in 1..Len(reqs) :
        /\ reqs[k].kind = "upload" /\ reqs[k].pc = "await"
        /\ LET structured_data == MergeLlm(reqs[k].structured_data, llm_data)
           IN  /\ cache' = CacheSet(cache, structured_data)
               /\ resp' = [kind |-> "upload",
                           body |-> [message |-> "File uploaded and processed successfully",
                                     structured_fields |-> structured_data]]
        /\ reqs' = Without(reqs, k)
    /\ Stepped("upload_finish", "")
    /\ UNCHANGED <<uploads, disk, n_uploads>>

UploadFinish == \E llm_data \in LlmRecords : UploadFinishWith(llm_data)

\* ask_question, lines 92-144
AskStart ==
    /\ ~Running
    /\ Len(reqs) < MaxInFlight
    /\ \E question \in Questions :
         LET hit == DirectLookup(question, cache)
             loaded == load(disk)
         IN  /\ Stepped("ask_start", question)
             /\ IF hit # <<>>
                THEN /\ resp' = [kind |-> "ask", body |-> DirectResponse(hit)]
                     /\ reqs' = reqs
                ELSE \E listing \in Listings(uploads) :
                       LET all_chunks == AllChunks(parse_documents(uploads, listing), 1)
                       IN  IF loaded = None /\ all_chunks = <<>>
                           THEN /\ resp' = [kind |-> "ask", body |-> NoDocuments]
                                /\ reqs' = reqs
                           ELSE \E results \in {retrieve(question,
                                                     IF loaded = None
                                                     THEN build_vector_store(all_chunks)
                                                     ELSE loaded)} :
                                LET safe == final_guardrail(question, results)
                                IN  IF Rejected(safe, results)
                                    THEN /\ resp' = [kind |-> "ask", body |-> NotFound]
                                         /\ reqs' = reqs
                                    ELSE /\ resp' = NoResponse
                                         /\ reqs' = Append(reqs,
                                              [kind |-> "ask", pc |-> "await",
                                               question |-> question,
                                               results |-> results,
                                               confidence |-> calculate_confidence(results)])
    /\ UNCHANGED <<uploads, disk, cache, n_uploads>>

\* ask_question, lines 150-166, resumed with llm_answer as the outcome of the await
AskFinishWith(llm_answer) ==
    /\ ~Running
    /\ \E k \in 1..Len(reqs) :
        /\ reqs[k].kind = "ask" /\ reqs[k].pc = "await"
        /\ resp' = [kind |-> "ask",
                    body |-> AnswerResponse(reqs[k].results, reqs[k].confidence, llm_answer)]
        /\ reqs' = Without(reqs, k)
        /\ Stepped("ask_finish", reqs[k].question)
    /\ UNCHANGED <<uploads, disk, cache, n_uploads>>

AskFinish == \E llm_answer \in LlmAnswers : AskFinishWith(llm_answer)

\* extract_data, lines 171-192
ExtractStart ==
    /\ ~Running
    /\ Len(reqs) < MaxInFlight
    /\ \E listing \in Listings(uploads) :
         LET all_text == AllText(parse_documents(uploads, listing), 1)
         IN  IF Strip(all_text) = ""
             THEN /\ resp' = [kind |-> "extract", body |-> empty_result]
                  /\ reqs' = reqs
             ELSE /\ resp' = NoResponse
                  /\ reqs' = Append(reqs, [kind |-> "extract", pc |-> "await",
                                           extracted |-> extract_structured_fields(all_text)])
    /\ Stepped("extract_start", "")
    /\ UNCHANGED <<uploads, disk, cache, n_uploads>>

\* extract_data, lines 192-205, resumed with llm_data as the outcome of the await
ExtractFinishWith(llm_data) ==
    /\ ~Running
    /\ \E k \in 1..Len(reqs) :
        /\ reqs[k].kind = "extract" /\ reqs[k].pc = "await"
        /\ resp' = [kind |-> "extract", body |-> MergeLlm(reqs[k].extracted, llm_data)]
        /\ reqs' = Without(reqs, k)
    /\ Stepped("extract_finish", "")
    /\ UNCHANGED <<uploads, disk, cache, n_uploads>>

ExtractFinish == \E llm_data \in LlmRecords : ExtractFinishWith(llm_data)


(***************************************************************************)
(* Claims about the application (checked under Spec)                       *)
(*                                                                         *)
(* The formulas over steps read `step'` to tell which handler moved.  A    *)
(* step that leaves every variable unchanged can only be an ask or extract *)
(* that answers at once from a state its own kind of step has just         *)
(* produced, with the same directories, cache and requests in flight; the  *)
(* formulas read those unprimed and the rest primed, so that step was      *)
(* checked when the state was first entered.                               *)
(***************************************************************************)

\* the lists of chunks ask_question may rebuild from data/uploads
UploadChunkLists ==
    {AllChunks(parse_documents(uploads, listing), 1) : listing \in Listings(uploads)}

\* the stores ask_question may retrieve from: the snapshot, or else a store
\* rebuilt from the upload directory when it has chunks
StoresFor ==
    IF load(disk) # None THEN {load(disk)}
    ELSE {build_vector_store(cl) : cl \in UploadChunkLists \ {<<>>}}

\* the request that an ask_finish step has answered
AnsweredAsk(k) ==
    k \in 1..Len(reqs) /\ reqs[k].kind = "ask" /\ reqs' = Without(reqs, k)

AskResponse(body) == [kind |-> "ask", body |-> body]

\* C1 as stated: whenever an ask runs in a state where every retrieval for
\* its question is empty or fails final_guardrail, the response is the
\* not-found answer with confidence 0.0 and no sources; and a response other
\* than not-found comes only from the completion of an ask whose retrieval
\* passed the guardrails, with the confidence of calculate_confidence.
C1_NotFoundOnEveryFailure ==
    [][/\ step'.op = "ask_start" =>
            ((\A st \in StoresFor : \A results \in {retrieve(step'.q, st)} :
                 results = <<>> \/ ~final_guardrail(step'.q, results))
             => resp' = AskResponse(NotFound))
       /\ (resp'.kind = "ask" /\ resp'.body.answer # NotFound.answer) =>
            /\ step'.op = "ask_finish"
            /\ \E k \in 1..Len(reqs) :
                 /\ AnsweredAsk(k)
                 /\ final_guardrail(reqs[k].question, reqs[k].results)
                 /\ resp'.body.confidence = calculate_confidence(reqs[k].results)
      ]_vars

\* C1, amended: an ask whose question names a field that the structured
\* cache holds is answered with the cached value, confidence 0.95 and the one
\* source "structured", whatever the retrieval would give.  Otherwise, with
\* no snapshot and no chunk in the upload directory the answer is the
\* no-documents answer; otherwise the retrieval is run, and if it is empty or
\* fails final_guardrail the response is not-found with confidence 0.0 and no
\* sources, and if it passes the ask goes on to answer.  The answer of an ask
\* that went on is for a non-empty retrieval that passed final_guardrail,
\* with the confidence of calculate_confidence and the top three chunks as
\* sources.
C1_NotFoundUnlessLookedUp ==
    [][/\ step'.op = "ask_start" =>
            LET q == step'.q
                hit == DirectLookup(q, cache)
            IN  IF hit # <<>>
                THEN /\ resp'.kind = "ask"
                     /\ resp'.body.answer = hit[2]
                     /\ resp'.body.confidence = 95
                     /\ Len(resp'.body.sources) = 1
                     /\ resp'.body.sources[1].page_name = "structured"
                ELSE IF StoresFor = {}
                THEN resp' = AskResponse(NoDocuments)
                ELSE \E st \in StoresFor : \E results \in {retrieve(q, st)} :
                           IF results = <<>> \/ ~final_guardrail(q, results)
                           THEN resp' = AskResponse(NotFound) /\ reqs' = reqs
                           ELSE /\ resp' = NoResponse
                                /\ Len(reqs') = Len(reqs) + 1
                                /\ SubSeq(reqs', 1, Len(reqs)) = reqs
                                /\ reqs'[Len(reqs')].kind = "ask"
                                /\ reqs'[Len(reqs')].question = q
                                /\ reqs'[Len(reqs')].results = results
       /\ step'.op = "ask_finish" =>
            \E k \in 1..Len(reqs) :
                /\ AnsweredAsk(k)
                /\ reqs[k].results # <<>>
                /\ final_guardrail(reqs[k].question, reqs[k].results)
                /\ resp'.kind = "ask"
                /\ resp'.body.confidence = calculate_confidence(reqs[k].results)
                /\ resp'.body.sources = SourcesOf(reqs[k].results)
      ]_vars

\* an ask has just answered not-found because final_guardrail rejected a
\* non-empty retrieval from the snapshot, the cache being filled
C1_Witness ==
    /\ step.op = "ask_start"
    /\ resp = AskResponse(NotFound)
    /\ cache # <<>>
    /\ load(disk) # None
    /\ retrieve(step.q, load(disk)) # <<>>
    /\ ~final_guardrail(step.q, retrieve(step.q, load(disk)))

\* the uploads that are between the two writes of save, or about to write
Saving(rs) == {k \in 1..Len(rs) : rs[k].kind = "upload" /\ rs[k].pc \in {"save_index", "save_chunks"}}

\* C9: a save excludes other saves and loads.  At most one save is in
\* progress; the write of the chunks file directly follows the write of the
\* index file of the same save; and a load (an ask that gets past the direct
\* lookup) finds no snapshot, or the index file and the chunks file of one
\* save, the vectors being those of the chunks.
C9_SaveExcludesSavesAndLoads ==
    [][/\ Cardinality(Saving(reqs')) <= 1
       /\ step'.op = "save_chunks" => step.op = "save_index"
       /\ step'.op = "save_index" => step.op = "upload_start"
       /\ (step'.op = "ask_start" /\ DirectLookup(step'.q, cache) = <<>>) =>
            \/ load(disk) = None
            \/ /\ disk.index.by = disk.chunks.by
               /\ load(disk).index = build_vector_store(load(disk).text_chunks).index
      ]_vars

\* an ask has just loaded the snapshot of the second save while the first
\* upload is still waiting for its await
C9_Witness ==
    /\ step.op = "ask_start"
    /\ DirectLookup(step.q, cache) = <<>>
    /\ load(disk) # None
    /\ disk.index.by = 2 /\ disk.chunks.by = 2
    /\ \E k \in 1..Len(reqs) : reqs[k].kind = "upload" /\ reqs[k].id = 1

\* C10: when the index file or the chunks file is missing, load returns None,
\* and an ask that calls load then rebuilds from the upload directory: with
\* no chunk there it answers "No documents uploaded yet." with confidence
\* 0.0 and no sources, and with chunks it retrieves from the store built
\* from them.
C10_MissingFileIsNoSnapshot ==
    [][(/\ step'.op = "ask_start"
        /\ DirectLookup(step'.q, cache) = <<>>
        /\ (disk.index = NoFile \/ disk.chunks = NoFile)) =>
            /\ load(disk) = None
            /\ IF UploadChunkLists = {<<>>}
               THEN resp' = AskResponse(NoDocuments) /\ reqs' = reqs
               ELSE \E cl \in UploadChunkLists :
                      \E results \in {retrieve(step'.q, build_vector_store(cl))} :
                          \/ resp' = AskResponse(NotFound) /\ reqs' = reqs
                          \/ /\ resp' = NoResponse
                             /\ Len(reqs') = Len(reqs) + 1
                             /\ reqs'[Len(reqs')].results = results
      ]_vars

\* an ask has just answered no-documents with the index file on disk and the
\* chunks file missing
C10_Witness ==
    /\ step.op = "ask_start"
    /\ resp = AskResponse(NoDocuments)
    /\ disk.index # NoFile
    /\ disk.chunks = NoFile


\* the answers of puter_generate_answer that count as no answer
NoAnswers == {a \in LlmAnswers : ~Truthy(a) \/ Contains("not found in document", Lower(a[1]))}

\* C15: a failure of an LLM collaborator never fails a request: upload and
\* extract return the regex extractor's record unchanged, ask returns the
\* first 500 characters of the top chunk's text with the computed confidence
\* and the sources, also when the LLM answers "not found in document".
C15_LlmFailureFallsBack ==
    [][/\ UploadFinishWith(LlmFailed) =>
            \E k \in 1..Len(reqs) :
                /\ reqs[k].kind = "upload" /\ reqs[k].pc = "await"
                /\ reqs' = Without(reqs, k)
                /\ resp' = [kind |-> "upload",
                            body |-> [message |-> "File uploaded and processed successfully",
                                      structured_fields |->
                                          extract_structured_fields(reqs[k].all_text)]]
       /\ (step'.op = "extract_start" /\ Len(reqs') > Len(reqs)) =>
            \E listing \in Listings(uploads) :
                reqs'[Len(reqs')].extracted =
                    extract_structured_fields(AllText(parse_documents(uploads, listing), 1))
       /\ ExtractFinishWith(LlmFailed) =>
            \E k \in 1..Len(reqs) :
                /\ reqs[k].kind = "extract"
                /\ reqs' = Without(reqs, k)
                /\ resp' = [kind |-> "extract", body |-> reqs[k].extracted]
       /\ \A llm_answer \in NoAnswers :
            AskFinishWith(llm_answer) =>
                \E k \in 1..Len(reqs) :
                    /\ reqs[k].kind = "ask"
                    /\ reqs' = Without(reqs, k)
                    /\ resp' = [kind |-> "ask",
                                body |-> [answer |-> PySlice(reqs[k].results[1].chunk.text, 0, 500),
                                          confidence |-> calculate_confidence(reqs[k].results),
                                          sources |-> SourcesOf(reqs[k].results)]]
      ]_vars

\* an ask that passed the guardrail was answered with the top chunk's text,
\* which no answer of the LLM is
C15_Witness ==
    /\ step.op = "ask_finish"
    /\ step.q = "ab"
    /\ resp.kind = "ask"
    /\ resp.body.answer = "ab c"
    /\ Some(resp.body.answer) \notin LlmAnswers
    /\ resp.body.confidence > 0
    /\ resp.body.sources # <<>>


\* record is regex_data overridden by the non-null values of llm_data
MergedFieldByField(record, regex_data, llm_data) ==
    /\ DOMAIN record = FieldNames
    /\ Cardinality(DOMAIN record) = 11
    /\ \A f \in FieldNames :
         record[f] = IF llm_data[f] # NoneStr THEN llm_data[f] ELSE regex_data[f]

CacheLifecycleStep ==
    /\ cache' # cache => step'.op = "upload_finish"
    /\ step'.op = "upload_finish" =>
         \E k \in 1..Len(reqs), llm_data \in LlmRecords :
            /\ reqs[k].kind = "upload" /\ reqs[k].pc = "await"
            /\ reqs' = Without(reqs, k)
            /\ cache' = <<MergeLlm(extract_structured_fields(reqs[k].all_text), llm_data)>>
            /\ resp'.body.structured_fields = cache'[1]
    /\ step'.op \in {"ask_start", "ask_finish", "extract_start", "extract_finish"} =>
         cache' = cache
    /\ (step'.op = "ask_start" /\ DirectLookup(step'.q, cache) # <<>>) =>
         \E hit \in {DirectLookup(step'.q, cache)} :
            /\ resp' = AskResponse(DirectResponse(hit))
            /\ resp'.body.answer = cache[1][hit[1]][1]
            /\ reqs' = reqs

UploadsInFlight(rs) == {k \in 1..Len(rs) : rs[k].kind = "upload"}

\* the chunks of a list, as a set
ChunkSet(chunks) == {chunks[i] : i \in 1..Len(chunks)}

\* C18: when uploads overlap at their awaits, the upload that completes last
\* leaves in the structured cache a record computed from the documents of
\* the persisted snapshot: if it saved an index and the snapshot is its own
\* or that of an upload that started after it, the chunks it parsed are those
\* of the snapshot.
C18_CacheFromSnapshotDocuments ==
    [][(/\ step'.op = "upload_finish"
        /\ UploadsInFlight(reqs') = {}
        /\ load(disk) # None) =>
            \E k \in UploadsInFlight(reqs) :
                /\ reqs' = Without(reqs, k)
                /\ cache' = <<resp'.body.structured_fields>>
                /\ (reqs[k].all_chunks # <<>> /\ disk.chunks.by >= reqs[k].id) =>
                      ChunkSet(reqs[k].all_chunks) = ChunkSet(load(disk).text_chunks)
      ]_vars


(***************************************************************************)
(* Specifications                                                          *)
(***************************************************************************)

InitOfChunk ==
    InitChunk /\ IdleStore /\ IdleApp /\ IdleGuard /\ disk = [index |-> NoFile, chunks |-> NoFile]

NextOfChunk ==
    \/ ForNext /\ UNCHANGED <<storeVars, disk, appVars, guardVars>>
    \/ WhileBody /\ UNCHANGED <<storeVars, disk, appVars, guardVars>>
    \/ WhileExit /\ UNCHANGED <<storeVars, disk, appVars, guardVars>>
    \/ ChunkReturn /\ UNCHANGED <<storeVars, disk, appVars, guardVars>>

\* one call of chunk_text
SpecChunk == InitOfChunk /\ [][NextOfChunk]_vars

InitOfStore == InitStore /\ IdleChunk /\ IdleApp /\ IdleGuard

NextOfStore ==
    \/ StoreAdd /\ UNCHANGED <<chunkVars, appVars, guardVars>>
    \/ StoreSearch /\ UNCHANGED <<chunkVars, appVars, guardVars>>
    \/ StoreSave /\ UNCHANGED <<chunkVars, appVars, guardVars>>
    \/ StoreLoad /\ UNCHANGED <<chunkVars, appVars, guardVars>>

\* one VectorStore object and its location on disk
SpecStore == InitOfStore /\ [][NextOfStore]_vars

Init == InitApp /\ IdleChunk /\ IdleStore /\ IdleGuard

Next ==
    \/ UploadStart /\ UNCHANGED <<chunkVars, storeVars, guardVars>>
    \/ UploadSaveIndex /\ UNCHANGED <<chunkVars, storeVars, guardVars>>
    \/ UploadSaveChunks /\ UNCHANGED <<chunkVars, storeVars, guardVars>>
    \/ UploadFinish /\ UNCHANGED <<chunkVars, storeVars, guardVars>>
    \/ AskStart /\ UNCHANGED <<chunkVars, storeVars, guardVars>>
    \/ AskFinish /\ UNCHANGED <<chunkVars, storeVars, guardVars>>
    \/ ExtractStart /\ UNCHANGED <<chunkVars, storeVars, guardVars>>
    \/ ExtractFinish /\ UNCHANGED <<chunkVars, storeVars, guardVars>>

InitOfGuard ==
    /\ InitGuard /\ IdleChunk /\ IdleStore /\ IdleApp
    /\ disk = [index |-> NoFile, chunks |-> NoFile]

NextOfGuard ==
    \/ GuardStrong /\ UNCHANGED <<chunkVars, storeVars, disk, appVars>>
    \/ GuardKeyword /\ UNCHANGED <<chunkVars, storeVars, disk, appVars>>
    \/ GuardCoverage /\ UNCHANGED <<chunkVars, storeVars, disk, appVars>>
    \/ GuardRate /\ UNCHANGED <<chunkVars, storeVars, disk, appVars>>
    \/ Score /\ UNCHANGED <<chunkVars, storeVars, disk, appVars>>

\* one call of final_guardrail and one of calculate_confidence
SpecGuard == InitOfGuard /\ [][NextOfGuard]_vars

\* the application: requests arrive at any time, and a suspended handler
\* resumes when its await completes
Spec == Init /\ [][Next]_vars

=============================================================================
